---------------------------- MODULE Spec2Model ----------------------------
(***************************************************************************)
(* Model of homework.py: the fitness-tracker calculation module.           *)
(*                                                                         *)
(* Numbers are exact rationals <<n, d>> (d > 0, lowest terms).  Python's   *)
(* floats are modelled by the real numbers they approximate; rounding      *)
(* error of binary floating point is outside the model.  An arithmetic     *)
(* operation that raises ZeroDivisionError yields the value ZeroDiv, which *)
(* every later operation propagates, as an exception propagates up the     *)
(* call stack.  A printed number is the integer count of its thousandths;  *)
(* the sign of a zero ("-0.000") is not modelled.                          *)
(***************************************************************************)
EXTENDS Integers, Sequences, FiniteSets, TLC

(***************************************************************************)
(* Rational arithmetic.                                                    *)
(***************************************************************************)
Abs(n) == IF n < 0 THEN -n ELSE n

RECURSIVE GCD(_, _)
GCD(a, b) == IF b = 0 THEN a ELSE GCD(b, a % b)

\* The value of an expression whose evaluation raised ZeroDivisionError.
ZeroDiv == <<0, 0>>

Raised(r) == r[2] = 0

\* n/d in lowest terms with a positive denominator (d # 0).
Rat(n, d) ==
    LET g == GCD(Abs(n), Abs(d))
        s == IF d < 0 THEN -1 ELSE 1
    IN  <<(s * n) \div g, (s * d) \div g>>

Num(n) == <<n, 1>>

\* Sums and products are reduced before the numerators are multiplied, to
\* keep the intermediate integers small.
RAdd(a, b) ==
    IF Raised(a) \/ Raised(b) THEN ZeroDiv
    ELSE LET g == GCD(a[2], b[2])
         IN  Rat(a[1] * (b[2] \div g) + b[1] * (a[2] \div g),
                 (a[2] \div g) * b[2])

RNeg(a) == <<-a[1], a[2]>>

RSub(a, b) == RAdd(a, RNeg(b))

RMul(a, b) ==
    IF Raised(a) \/ Raised(b) THEN ZeroDiv
    ELSE LET g == GCD(Abs(a[1]), b[2])
             h == GCD(Abs(b[1]), a[2])
         IN  Rat((a[1] \div g) * (b[1] \div h), (a[2] \div h) * (b[2] \div g))

\* Python's / : ZeroDivisionError when the divisor is zero.
RDiv(a, b) ==
    IF Raised(a) \/ Raised(b) \/ b[1] = 0 THEN ZeroDiv
    ELSE RMul(a, Rat(b[2], b[1]))

\* Python's // : the floor of the quotient; ZeroDivisionError on zero.
RFloorDiv(a, b) ==
    LET q == RDiv(a, b)
    IN  IF Raised(q) THEN ZeroDiv ELSE Num(q[1] \div q[2])

\* Python's ** with the integer exponent 2.
RSquare(a) == RMul(a, a)

RLess(a, b) == a[1] * b[2] < b[1] * a[2]

RLeq(a, b) == a[1] * b[2] <= b[1] * a[2]

\* The '.3f' conversion: the number of thousandths nearest to r, ties to
\* the even one.  The digits printed are those of this integer.
Format3f(r) ==
    LET t == RMul(r, Num(1000))
        f == t[1] \div t[2]
        twice == 2 * (t[1] - f * t[2])
    IN  IF twice < t[2] THEN f
        ELSE IF twice > t[2] THEN f + 1
        ELSE IF f % 2 = 0 THEN f ELSE f + 1

(***************************************************************************)
(* Class constants.                                                        *)
(***************************************************************************)
M_IN_KM == 1000
MIN_IN_HOUR == 60
Training_LEN_STEP == Rat(65, 100)
Swimming_LEN_STEP == Rat(138, 100)
CALORIES_MEAN_SPEED_MULTIPLIER == 18
CALORIES_MEAN_SPEED_SHIFT == 20
CALORIES_WEIGHT_MULTIPLIER == Rat(35, 1000)
CALORIES_LOCAL_MULTIPLIER_WALK == Rat(29, 1000)
CALORIES_MEAN_SPEED_ADDEND == Rat(11, 10)
CALORIES_LOCAL_MULTIPLIER_SWIM == 2

(***************************************************************************)
(* Bounds and input universe.                                              *)
(***************************************************************************)
\* Longest batch of packages the driver loop is run on.
MaxPackages == 3

Labels == {"SWM", "RUN", "WLK", "XYZ"}
ActionValues == {Num(0), Num(2000), Num(9000), Num(15000)}
DurationValues == {Num(0), Rat(1, 2), Num(1), Num(2)}
WeightValues == {Num(0), Num(75), Num(80)}
FourthValues == {Num(-7), Num(0), Num(3), Num(25), Num(180)}
FifthValues == {Num(0), Num(40)}

Data3 == {<<a, d, w>> : a \in ActionValues, d \in DurationValues, w \in WeightValues}
Data4 == {Append(x, y) : x \in Data3, y \in FourthValues}
Data5 == {Append(x, y) : x \in Data4, y \in FifthValues}

\* Every (workout_type, data) pair of the input universe.
AllPackages == Labels \X (Data3 \cup Data4 \cup Data5)

\* The packages the batches of the driver loop are made of: the three of
\* the __main__ block, an unknown label, wrong arities, zero divisors.
BatchPackages ==
    { <<"SWM", <<Num(720), Num(1), Num(80), Num(25), Num(40)>>>>,
      <<"RUN", <<Num(15000), Num(1), Num(75)>>>>,
      <<"WLK", <<Num(9000), Num(1), Num(75), Num(180)>>>>,
      <<"XYZ", <<Num(1), Num(2), Num(3)>>>>,
      <<"RUN", <<Num(15000), Num(1), Num(75), Num(180)>>>>,
      <<"SWM", <<Num(720), Num(1), Num(80)>>>>,
      <<"WLK", <<Num(9000), Num(1), Num(75), Num(0)>>>>,
      <<"RUN", <<Num(15000), Num(0), Num(75)>>>> }

RECURSIVE SeqsUpTo(_, _)
SeqsUpTo(S, n) ==
    IF n = 0 THEN {<<>>}
    ELSE LET shorter == SeqsUpTo(S, n - 1)
         IN  shorter \cup {Append(s, x) : s \in shorter, x \in S}

Batches == SeqsUpTo(BatchPackages, MaxPackages) \cup {<<p>> : p \in AllPackages}

(***************************************************************************)
(* Classes.  An object is a record of its class name and attributes.       *)
(***************************************************************************)
None == [cls |-> "None"]

\* Training.__init__
Training_init(cls, action, duration, weight) ==
    [cls |-> cls, action |-> action, duration |-> duration, weight |-> weight]

\* Running inherits Training.__init__
Running_init(data) == Training_init("Running", data[1], data[2], data[3])

\* SportsWalking.__init__
SportsWalking_init(data) ==
    [cls |-> "SportsWalking", action |-> data[1], duration |-> data[2],
     weight |-> data[3], height |-> data[4]]

\* Swimming.__init__
Swimming_init(data) ==
    [cls |-> "Swimming", action |-> data[1], duration |-> data[2],
     weight |-> data[3], length_pool |-> data[4], count_pool |-> data[5]]

\* self.LEN_STEP: the class attribute, overridden by Swimming.
LEN_STEP(self) ==
    IF self.cls = "Swimming" THEN Swimming_LEN_STEP ELSE Training_LEN_STEP

\* get_distance with the step length of the wrong class.
get_distance_WrongStep(self) ==
    RDiv(RMul(self.action, Swimming_LEN_STEP), Num(M_IN_KM))

\* Training.get_distance
get_distance(self) ==
    RDiv(RMul(self.action, LEN_STEP(self)), Num(M_IN_KM))

\* get_mean_speed dividing by the wrong attribute.
Training_get_mean_speed_ByWeight(self) == RDiv(get_distance(self), self.weight)

\* Training.get_mean_speed
Training_get_mean_speed(self) == RDiv(get_distance(self), self.duration)

\* Swimming.get_mean_speed
Swimming_get_mean_speed(self) ==
    RDiv(RDiv(RMul(self.length_pool, self.count_pool), Num(M_IN_KM)),
         self.duration)

\* Method resolution with Swimming's override missing.
get_mean_speed_NoOverride(self) == Training_get_mean_speed(self)

\* self.get_mean_speed(): method resolution.
get_mean_speed(self) ==
    IF self.cls = "Swimming" THEN Swimming_get_mean_speed(self)
    ELSE Training_get_mean_speed(self)

\* Running.get_spent_calories with the shift subtracted inside the product:
\* 18 * (speed - 20).
Running_get_spent_calories_Grouping(self) ==
    LET duration_min == RMul(self.duration, Num(MIN_IN_HOUR))
    IN  RMul(RDiv(RMul(RMul(Num(CALORIES_MEAN_SPEED_MULTIPLIER),
                            RSub(get_mean_speed(self),
                                 Num(CALORIES_MEAN_SPEED_SHIFT))),
                       self.weight),
                  Num(M_IN_KM)),
             duration_min)

\* Running.get_spent_calories
Running_get_spent_calories(self) ==
    LET duration_min == RMul(self.duration, Num(MIN_IN_HOUR))
    IN  RMul(RDiv(RMul(RSub(RMul(Num(CALORIES_MEAN_SPEED_MULTIPLIER),
                                 get_mean_speed(self)),
                            Num(CALORIES_MEAN_SPEED_SHIFT)),
                       self.weight),
                  Num(M_IN_KM)),
             duration_min)

\* SportsWalking.get_spent_calories with / in place of //.
SportsWalking_get_spent_calories_TrueDiv(self) ==
    LET duration_min == RMul(self.duration, Num(MIN_IN_HOUR))
    IN  RMul(RAdd(RMul(CALORIES_WEIGHT_MULTIPLIER, self.weight),
                  RMul(RMul(RDiv(RSquare(get_mean_speed(self)), self.height),
                            CALORIES_LOCAL_MULTIPLIER_WALK),
                       self.weight)),
             duration_min)

\* SportsWalking.get_spent_calories
SportsWalking_get_spent_calories(self) ==
    LET duration_min == RMul(self.duration, Num(MIN_IN_HOUR))
    IN  RMul(RAdd(RMul(CALORIES_WEIGHT_MULTIPLIER, self.weight),
                  RMul(RMul(RFloorDiv(RSquare(get_mean_speed(self)),
                                      self.height),
                            CALORIES_LOCAL_MULTIPLIER_WALK),
                       self.weight)),
             duration_min)

\* Swimming.get_spent_calories without the parentheses round the sum:
\* speed + 1.1 * 2 * weight.
Swimming_get_spent_calories_NoParens(self) ==
    RAdd(get_mean_speed(self),
         RMul(RMul(CALORIES_MEAN_SPEED_ADDEND,
                   Num(CALORIES_LOCAL_MULTIPLIER_SWIM)),
              self.weight))

\* Swimming.get_spent_calories
Swimming_get_spent_calories(self) ==
    RMul(RMul(RAdd(get_mean_speed(self), CALORIES_MEAN_SPEED_ADDEND),
              Num(CALORIES_LOCAL_MULTIPLIER_SWIM)),
         self.weight)

\* self.get_spent_calories(): method resolution.
get_spent_calories(self) ==
    CASE self.cls = "Running" -> Running_get_spent_calories(self)
      [] self.cls = "SportsWalking" -> SportsWalking_get_spent_calories(self)
      [] self.cls = "Swimming" -> Swimming_get_spent_calories(self)

\* What a call that raised ZeroDivisionError yields instead of a value.
ZeroDivisionError == [cls |-> "ZeroDivisionError"]

\* Training.show_training_info: the InfoMessage, or ZeroDivisionError when
\* one of the three computations raised it.
show_training_info(self) ==
    LET distance == get_distance(self)
        speed == get_mean_speed(self)
        calories == get_spent_calories(self)
    IN  IF Raised(distance) \/ Raised(speed) \/ Raised(calories)
        THEN ZeroDivisionError
        ELSE [cls |-> "InfoMessage", training_type |-> self.cls,
              duration |-> self.duration, distance |-> distance,
              speed |-> speed, calories |-> calories]

\* InfoMessage.get_message: the line, as the sequence of the template's
\* five substituted fields after the fixed text.
get_message(info) ==
    <<"Training type", info.training_type, Format3f(info.duration),
      Format3f(info.distance), Format3f(info.speed), Format3f(info.calories)>>

\* The diagnostic line printed by read_package for an unknown label.
UnknownLine(workout_type) == <<"Unknown training type", workout_type>>

\* training_dict in read_package: label -> class.
training_dict ==
    [l \in {"SWM", "RUN", "WLK"} |->
        CASE l = "SWM" -> "Swimming"
          [] l = "RUN" -> "Running"
          [] l = "WLK" -> "SportsWalking"]

\* Number of positional parameters of the class's __init__.
InitArity(cls) ==
    CASE cls = "Running" -> 3
      [] cls = "SportsWalking" -> 4
      [] cls = "Swimming" -> 5

\* cls(*data), the arity being right.
Construct(cls, data) ==
    CASE cls = "Running" -> Running_init(data)
      [] cls = "SportsWalking" -> SportsWalking_init(data)
      [] cls = "Swimming" -> Swimming_init(data)

(***************************************************************************)
(* The driver: for workout_type, data in packages:                         *)
(*                 training = read_package(workout_type, data)             *)
(*                 main(training)                                          *)
(***************************************************************************)
VARIABLES
    packages,  \* the batch being processed
    i,         \* index of the package the loop is at
    pc,        \* "read_package", "main", or "done"
    training,  \* the loop's variable training
    info,      \* main's local info in its latest call (None: not bound)
    output,    \* the lines printed so far
    error      \* the exception that ended the program, or "none"

vars == <<packages, i, pc, training, info, output, error>>

Init ==
    /\ packages \in Batches
    /\ i = 1
    /\ pc = IF packages = <<>> THEN "done" ELSE "read_package"
    /\ training = None
    /\ info = None
    /\ output = <<>>
    /\ error = "none"

\* print(line)
print(out, line) == Append(out, line)

\* read_package without the except clause: KeyError propagates.
ReadPackage_NoExcept ==
    /\ pc = "read_package"
    /\ error = "none"
    /\ LET workout_type == packages[i][1]
           data == packages[i][2]
       IN  IF workout_type \notin DOMAIN training_dict
           THEN /\ error' = "KeyError"
                /\ UNCHANGED <<output, training, pc>>
           ELSE IF Len(data) # InitArity(training_dict[workout_type])
           THEN /\ error' = "TypeError"
                /\ UNCHANGED <<output, training, pc>>
           ELSE /\ training' = Construct(training_dict[workout_type], data)
                /\ pc' = "main"
                /\ UNCHANGED <<output, error>>
    /\ UNCHANGED <<packages, i, info>>

\* read_package with "except (KeyError, TypeError)": a wrong arity is
\* reported as an unknown type.
ReadPackage_CatchAll ==
    /\ pc = "read_package"
    /\ error = "none"
    /\ LET workout_type == packages[i][1]
           data == packages[i][2]
       IN  IF \/ workout_type \notin DOMAIN training_dict
              \/ Len(data) # InitArity(training_dict[workout_type])
           THEN /\ output' = print(output, UnknownLine(workout_type))
                /\ training' = None
                /\ pc' = "main"
                /\ error' = error
           ELSE /\ training' = Construct(training_dict[workout_type], data)
                /\ pc' = "main"
                /\ UNCHANGED <<output, error>>
    /\ UNCHANGED <<packages, i, info>>

\* read_package whose except clause prints and leaves the caller's training
\* as the previous iteration set it.
ReadPackage_StaleTraining ==
    /\ pc = "read_package"
    /\ error = "none"
    /\ LET workout_type == packages[i][1]
           data == packages[i][2]
       IN  IF workout_type \notin DOMAIN training_dict
           THEN /\ output' = print(output, UnknownLine(workout_type))
                /\ pc' = "main"
                /\ UNCHANGED <<training, error>>
           ELSE IF Len(data) # InitArity(training_dict[workout_type])
           THEN /\ error' = "TypeError"
                /\ UNCHANGED <<output, training, pc>>
           ELSE /\ training' = Construct(training_dict[workout_type], data)
                /\ pc' = "main"
                /\ UNCHANGED <<output, error>>
    /\ UNCHANGED <<packages, i, info>>

\* training = read_package(workout_type, data)
ReadPackage ==
    /\ pc = "read_package"
    /\ error = "none"
    /\ LET workout_type == packages[i][1]
           data == packages[i][2]
       IN  IF workout_type \notin DOMAIN training_dict
           THEN \* except KeyError
                /\ output' = print(output, UnknownLine(workout_type))
                /\ training' = None
                /\ pc' = "main"
                /\ error' = error
           ELSE IF Len(data) # InitArity(training_dict[workout_type])
           THEN \* TypeError from cls(*data), not caught
                /\ error' = "TypeError"
                /\ UNCHANGED <<output, training, pc>>
           ELSE /\ training' = Construct(training_dict[workout_type], data)
                /\ pc' = "main"
                /\ UNCHANGED <<output, error>>
    /\ UNCHANGED <<packages, i, info>>

\* The loop's next position after main returned.
AfterMain == IF i = Len(packages) THEN "done" ELSE "read_package"

\* main without the "is not None" test: None has no show_training_info.
Main_NoNoneCheck ==
    /\ pc = "main"
    /\ error = "none"
    /\ IF training # None
       THEN LET message == show_training_info(training)
            IN  IF message = ZeroDivisionError
                THEN /\ error' = "ZeroDivisionError"
                     /\ info' = None
                     /\ UNCHANGED <<output, pc, i>>
                ELSE /\ info' = message
                     /\ output' = print(output, get_message(message))
                     /\ i' = i + 1
                     /\ pc' = AfterMain
                     /\ error' = error
       ELSE /\ error' = "AttributeError"
            /\ info' = None
            /\ UNCHANGED <<output, pc, i>>
    /\ UNCHANGED <<packages, training>>

\* main(training)
Main ==
    /\ pc = "main"
    /\ error = "none"
    /\ IF training # None
       THEN LET message == show_training_info(training)
            IN  IF message = ZeroDivisionError
                THEN \* not caught: info is never bound, nothing is printed
                     /\ error' = "ZeroDivisionError"
                     /\ info' = None
                     /\ UNCHANGED <<output, pc, i>>
                ELSE /\ info' = message
                     /\ output' = print(output, get_message(message))
                     /\ i' = i + 1
                     /\ pc' = AfterMain
                     /\ error' = error
       ELSE /\ info' = None
            /\ i' = i + 1
            /\ pc' = AfterMain
            /\ UNCHANGED <<output, error>>
    /\ UNCHANGED <<packages, training>>

Next == ReadPackage \/ Main

Spec == Init /\ [][Next]_vars

(***************************************************************************)
(* Vocabulary of the properties.                                           *)
(***************************************************************************)
KnownLabels == {"SWM", "RUN", "WLK"}

LabelOf(p) == p[1]
DataOf(p) == p[2]

\* The class name a registered label's report carries.
TypeName(label) ==
    CASE label = "SWM" -> "Swimming"
      [] label = "RUN" -> "Running"
      [] label = "WLK" -> "SportsWalking"

\* The number of data elements a registered label takes.
ArityOf(label) ==
    CASE label = "RUN" -> 3
      [] label = "WLK" -> 4
      [] label = "SWM" -> 5

ArityMatches(p) == Len(DataOf(p)) = ArityOf(LabelOf(p))

IsReportLine(line) == line[1] = "Training type"
IsDiagnostic(line) == line[1] = "Unknown training type"

\* The number of lines printed when every package the loop has been through
\* printed exactly one: those before i, and that at i once its diagnostic
\* is out.
LinesSoFar ==
    (i - 1) + (IF pc = "main" /\ LabelOf(packages[i]) \notin KnownLabels
               THEN 1 ELSE 0)

\* The line of a package, from the package alone.
ExpectedLine(p) ==
    IF LabelOf(p) \in KnownLabels
    THEN get_message(show_training_info(
             Construct(training_dict[LabelOf(p)], DataOf(p))))
    ELSE UnknownLine(LabelOf(p))

\* The integers among which the floor of speed^2/height is looked for.
FloorRange == (-100)..200

RunSample == <<"RUN", <<Num(15000), Num(1), Num(75)>>>>
SwimSample == <<"SWM", <<Num(720), Num(1), Num(80), Num(25), Num(40)>>>>
WalkSample == <<"WLK", <<Num(9000), Num(1), Num(75), Num(180)>>>>

(***************************************************************************)
(* C1.  A package whose label is not SWM, RUN or WLK yields no Report      *)
(* (training is None and main prints nothing), prints exactly one          *)
(* diagnostic line, which carries the label, and does not stop the loop:   *)
(* the program never ends in an error at such a package, and every later   *)
(* package the loop has been through with a registered label has its       *)
(* report line at its own position.                                        *)
(***************************************************************************)
C1_UnknownLabelSkipped ==
    \A k \in 1..Len(packages) :
        LabelOf(packages[k]) \notin KnownLabels =>
            /\ (k = i) => error = "none"
            /\ (k = i /\ pc = "main") =>
                  /\ training = None
                  /\ Len(output) = k
                  /\ output[k] = <<"Unknown training type", LabelOf(packages[k])>>
            /\ (k < i) =>
                  /\ Len(output) = LinesSoFar
                  /\ output[k] = <<"Unknown training type", LabelOf(packages[k])>>
                  /\ (k = i - 1) => info = None
                  /\ \A j \in (k + 1)..(i - 1) :
                        LabelOf(packages[j]) \in KnownLabels =>
                            /\ IsReportLine(output[j])
                            /\ output[j][2] = TypeName(LabelOf(packages[j]))
                  /\ (error # "none") => LabelOf(packages[i]) \in KnownLabels

\* An unknown label followed by a registered one, both gone through.
C1_Witness ==
    /\ pc = "done"
    /\ Len(packages) >= 2
    /\ LabelOf(packages[1]) \notin KnownLabels
    /\ LabelOf(packages[2]) \in KnownLabels
    /\ IsDiagnostic(output[1])
    /\ IsReportLine(output[2])

(***************************************************************************)
(* C2.  One line per package, in input order.                              *)
(***************************************************************************)
\* A package of the right arity and non-zero duration (a label that is not
\* registered has no arity and no duration).
ValidPackage(p) ==
    LabelOf(p) \in KnownLabels => ArityMatches(p) /\ DataOf(p)[2] # Num(0)

\* ... and, for walking, a non-zero height.
ValidPackageNonZeroHeight(p) ==
    /\ ValidPackage(p)
    /\ (LabelOf(p) = "WLK" /\ ArityMatches(p)) => DataOf(p)[4] # Num(0)

OneLinePerPackage(Valid(_)) ==
    (\A k \in 1..Len(packages) : Valid(packages[k])) =>
        /\ error = "none"
        /\ Len(output) = LinesSoFar
        /\ \A k \in 1..Len(output) :
              /\ output[k] = ExpectedLine(packages[k])
              /\ IsReportLine(output[k]) <=> LabelOf(packages[k]) \in KnownLabels
              /\ IsDiagnostic(output[k]) <=> LabelOf(packages[k]) \notin KnownLabels
        /\ (pc = "done") => Len(output) = Len(packages)

\* C2 as stated: for every batch of packages with the right arity and a
\* non-zero duration, the driver prints exactly one line per package, in
\* input order: the report line of a registered label, the diagnostic of
\* another; none prints both, none prints nothing.
C2_Original == OneLinePerPackage(ValidPackage)

\* C2 amended: the same for every batch of packages with the right arity, a
\* non-zero duration and, for walking, a non-zero height.
C2_OneLinePerPackage == OneLinePerPackage(ValidPackageNonZeroHeight)

\* A whole batch of three valid packages, registered and not, gone through.
C2_Witness ==
    /\ pc = "done"
    /\ Len(packages) = 3
    /\ \A k \in 1..3 : ValidPackageNonZeroHeight(packages[k])
    /\ \E k \in 1..3 : LabelOf(packages[k]) \notin KnownLabels
    /\ \E k \in 1..3 : LabelOf(packages[k]) = "WLK"
    /\ Len(output) = 3

(***************************************************************************)
(* C3.  The package ("RUN", [15000, 1, 75]).                               *)
(***************************************************************************)
\* The report of the package main has just been through.
ReportOf(p) == info # None /\ packages[i - 1] = p

\* C3 as stated: the package ("RUN", [15000, 1, 75]) gives a Report of
\* training_type "Running", distance 9.750, speed 9.750, calories 691.200.
C3_Original ==
    ReportOf(RunSample) =>
        /\ info.training_type = "Running"
        /\ output[i - 1][2] = "Running"
        /\ output[i - 1][4] = 9750
        /\ output[i - 1][5] = 9750
        /\ output[i - 1][6] = 691200

\* C3 amended: the package ("RUN", [15000, 1, 75]) gives a Report of
\* training_type "Running", distance 9.750, speed 9.750 and calories
\* (18*9.75-20)*75/1000*60 = 699.750.
C3_RunSample ==
    ReportOf(RunSample) =>
        /\ info.training_type = "Running"
        /\ info.distance = Rat(975, 100)
        /\ info.speed = Rat(975, 100)
        /\ info.calories = Rat(69975, 100)
        /\ output[i - 1] = <<"Training type", "Running", 1000, 9750, 9750, 699750>>

C3_Witness == ReportOf(RunSample) /\ Len(output) >= i - 1

(***************************************************************************)
(* C4.  For every Running package (action, duration, weight) with a        *)
(* non-zero duration, the Report has distance = action*0.65/1000,          *)
(* speed = distance/duration and                                           *)
(* calories = (18*speed - 20) * weight / 1000 * (duration*60); and every   *)
(* such package gets its Report.                                           *)
(***************************************************************************)
C4_RunningFormulas ==
    /\ (info # None /\ info.training_type = "Running") =>
          LET action == DataOf(packages[i - 1])[1]
              duration == DataOf(packages[i - 1])[2]
              weight == DataOf(packages[i - 1])[3]
              distance == RDiv(RMul(action, Rat(65, 100)), Num(1000))
              speed == RDiv(distance, duration)
              calories ==
                  RMul(RDiv(RMul(RSub(RMul(Num(18), speed), Num(20)), weight),
                            Num(1000)),
                       RMul(duration, Num(60)))
          IN  /\ LabelOf(packages[i - 1]) = "RUN"
              /\ duration # Num(0)
              /\ info.duration = duration
              /\ info.distance = distance
              /\ info.speed = speed
              /\ info.calories = calories
    /\ \A k \in 1..Len(packages) :
          (/\ LabelOf(packages[k]) = "RUN"
           /\ ArityMatches(packages[k])
           /\ DataOf(packages[k])[2] # Num(0)) =>
              /\ (k = i) => error = "none"
              /\ (k < i) => Len(output) >= k /\ output[k][2] = "Running"
              /\ (k = i - 1 /\ error = "none") => info # None

\* A Running report with a positive, fractional speed and positive calories.
C4_Witness ==
    /\ info # None
    /\ info.training_type = "Running"
    /\ info.speed[2] # 1
    /\ RLess(Num(0), info.calories)
    /\ DataOf(packages[i - 1])[2] = Rat(1, 2)

(***************************************************************************)
(* C5.  For every Walking package (action, duration, weight, height) the   *)
(* calories are                                                            *)
(*   (0.035*weight + floor(speed^2 / height) * 0.029 * weight)             *)
(*     * (duration*60),   speed = action*0.65/1000/duration:               *)
(* the floor, the integer t with t <= speed^2/height < t + 1, is what is   *)
(* multiplied, so the result differs from that of true division whenever   *)
(* speed^2/height is not an integer (and the weight is not zero), and the  *)
(* term is 0 whenever speed^2 < height; 5 // 3 is 1, not 1.666...;         *)
(* ("WLK", [9000, 1, 75, 180]) gives calories 157.500.                     *)
(***************************************************************************)
C5_WalkingFloor ==
    /\ (info # None /\ info.training_type = "SportsWalking") =>
          LET action == DataOf(packages[i - 1])[1]
              duration == DataOf(packages[i - 1])[2]
              weight == DataOf(packages[i - 1])[3]
              height == DataOf(packages[i - 1])[4]
              speed == RDiv(RDiv(RMul(action, Rat(65, 100)), Num(1000)),
                            duration)
              quotient == RDiv(RMul(speed, speed), height)
              Calories(term) ==
                  RMul(RAdd(RMul(Rat(35, 1000), weight),
                            RMul(RMul(term, Rat(29, 1000)), weight)),
                       RMul(duration, Num(60)))
          IN  /\ LabelOf(packages[i - 1]) = "WLK"
              /\ \E t \in FloorRange :
                    /\ RLeq(Num(t), quotient)
                    /\ RLess(quotient, Num(t + 1))
                    /\ info.calories = Calories(Num(t))
                    /\ (quotient[2] # 1) => Num(t) # quotient
              /\ (quotient[2] # 1 /\ weight # Num(0)) =>
                    info.calories # Calories(quotient)
              /\ RLess(RMul(speed, speed), height) =>
                    info.calories = Calories(Num(0))
    /\ ReportOf(WalkSample) => output[i - 1][6] = 157500
    /\ RFloorDiv(Num(5), Num(3)) = Num(1)

\* A Walking report whose speed^2/height is not an integer and at least 1.
C5_Witness ==
    /\ info # None
    /\ info.training_type = "SportsWalking"
    /\ DataOf(packages[i - 1])[3] # Num(0)
    /\ LET q == RDiv(RMul(info.speed, info.speed), DataOf(packages[i - 1])[4])
       IN  q[2] # 1 /\ RLess(Num(1), q)

(***************************************************************************)
(* C6.  For every Swimming package (action, duration, weight, length_pool, *)
(* count_pool) with a non-zero duration, the Report has                    *)
(* speed = length_pool*count_pool/1000/duration and                        *)
(* calories = (speed + 1.1) * 2 * weight; ("SWM", [720, 1, 80, 25, 40])    *)
(* gives speed 1.000 and calories 336.000.                                 *)
(***************************************************************************)
C6_SwimmingFormulas ==
    /\ (info # None /\ info.training_type = "Swimming") =>
          LET duration == DataOf(packages[i - 1])[2]
              weight == DataOf(packages[i - 1])[3]
              length_pool == DataOf(packages[i - 1])[4]
              count_pool == DataOf(packages[i - 1])[5]
              speed == RDiv(RDiv(RMul(length_pool, count_pool), Num(1000)),
                            duration)
              calories == RMul(RMul(RAdd(speed, Rat(11, 10)), Num(2)), weight)
          IN  /\ LabelOf(packages[i - 1]) = "SWM"
              /\ duration # Num(0)
              /\ info.speed = speed
              /\ info.calories = calories
    /\ \A k \in 1..Len(packages) :
          (/\ LabelOf(packages[k]) = "SWM"
           /\ ArityMatches(packages[k])
           /\ DataOf(packages[k])[2] # Num(0)) =>
              /\ (k = i) => error = "none"
              /\ (k < i) => Len(output) >= k /\ output[k][2] = "Swimming"
    /\ ReportOf(SwimSample) =>
          /\ output[i - 1][5] = 1000
          /\ output[i - 1][6] = 336000

\* A Swimming report with a positive speed and a weight other than 1.
C6_Witness ==
    /\ info # None
    /\ info.training_type = "Swimming"
    /\ RLess(Num(0), info.speed)
    /\ DataOf(packages[i - 1])[2] = Num(2)
    /\ DataOf(packages[i - 1])[3] = Num(75)

(***************************************************************************)
(* C7.  Arity of the data of a registered label.                           *)
(***************************************************************************)
WrongArity(p) == LabelOf(p) \in KnownLabels /\ ~ArityMatches(p)

C7_Positional ==
    (pc = "main" /\ training # None) =>
        LET label == LabelOf(packages[i])
            data == DataOf(packages[i])
        IN  /\ label \in KnownLabels
            /\ Len(data) = ArityOf(label)
            /\ training.cls = TypeName(label)
            /\ training.action = data[1]
            /\ training.duration = data[2]
            /\ training.weight = data[3]
            /\ (label = "RUN") => DOMAIN training = {"cls", "action", "duration", "weight"}
            /\ (label = "WLK") => training.height = data[4]
            /\ (label = "SWM") =>
                  training.length_pool = data[4] /\ training.count_pool = data[5]

C7_Stopped ==
    /\ \A k \in 1..Len(packages) :
          WrongArity(packages[k]) =>
              /\ k >= i
              /\ (k = i) => pc = "read_package" /\ Len(output) = i - 1
    /\ (error = "TypeError") =>
          /\ pc = "read_package"
          /\ WrongArity(packages[i])
          /\ Len(output) = i - 1
          /\ \A k \in 1..Len(output) : output[k] = ExpectedLine(packages[k])

\* C7.  For a registered label read_package takes exactly the variant's
\* number of data elements (3 for RUN, 4 for WLK, 5 for SWM) and assigns
\* them by position; another length is a fatal error that leaves
\* read_package: no diagnostic, no Report, and the packages after it are
\* not gone through.
C7_ArityMismatchFatal ==
    /\ [](C7_Positional /\ C7_Stopped)
    /\ [][/\ error = "none"
          /\ (pc = "read_package" /\ WrongArity(packages[i])) =>
                /\ error' = "TypeError"
                /\ UNCHANGED <<output, training, info, i, pc>>]_vars

\* The second package has a wrong arity: the program ended there, with the
\* first package's line only, and a third package is left.
C7_Witness ==
    /\ error = "TypeError"
    /\ i = 2
    /\ Len(packages) = 3
    /\ Len(output) = 1

(***************************************************************************)
(* C8.  The error outcomes.                                                *)
(***************************************************************************)
\* A registered label, the matching arity, a duration > 0.
WellFormed(p) ==
    /\ LabelOf(p) \in KnownLabels
    /\ ArityMatches(p)
    /\ RLess(Num(0), DataOf(p)[2])

\* ... and, for walking, a height other than 0.
WellFormedNonZeroHeight(p) ==
    /\ WellFormed(p)
    /\ (LabelOf(p) = "WLK") => DataOf(p)[4] # Num(0)

Completes(Good(_)) ==
    \A k \in 1..Len(packages) :
        Good(packages[k]) =>
            /\ (k = i) => error = "none"
            /\ (k < i) =>
                  /\ Len(output) >= k
                  /\ IsReportLine(output[k])
                  /\ output[k][2] = TypeName(LabelOf(packages[k]))

\* C8 as stated: for every package with a registered label, the matching
\* arity and a duration > 0, whatever the other fields (a walking height of
\* 0 included), read_package and main complete without error and print a
\* report line.
C8_Original == Completes(WellFormed)

\* C8 amended: the same for every such package whose height, for walking,
\* is not 0; the program ends in an error only at a package of a registered
\* label with a wrong arity (TypeError), a duration of 0 or a walking height
\* of 0 (ZeroDivisionError).
C8_NoOtherErrors ==
    /\ Completes(WellFormedNonZeroHeight)
    /\ error \in {"none", "TypeError", "ZeroDivisionError"}
    /\ (error = "TypeError") => WrongArity(packages[i])
    /\ (error = "ZeroDivisionError") =>
          /\ LabelOf(packages[i]) \in KnownLabels
          /\ ArityMatches(packages[i])
          /\ \/ DataOf(packages[i])[2] = Num(0)
             \/ LabelOf(packages[i]) = "WLK" /\ DataOf(packages[i])[4] = Num(0)

\* A well-formed walking package with a negative height and one with a zero
\* weight have been reported.
C8_Witness ==
    /\ info # None
    /\ WellFormedNonZeroHeight(packages[i - 1])
    /\ LabelOf(packages[i - 1]) = "WLK"
    /\ DataOf(packages[i - 1])[3] = Num(0)
    /\ RLess(DataOf(packages[i - 1])[4], Num(0))

(***************************************************************************)
(* C9.  For Swimming the step length 1.38 enters the distance only:        *)
(* distance = action*1.38/1000, while speed and calories are the same for  *)
(* every action; a Running or Walking Report has                           *)
(* distance = speed * duration, and a Swimming Report need not:            *)
(* [720, 1, 80, 25, 40] gives distance 0.9936 and speed*duration 1.0.      *)
(***************************************************************************)
C9_SwimmingStepLength ==
    /\ (training # None /\ training.cls = "Swimming" /\ training.duration # Num(0)) =>
          \A a \in ActionValues :
              LET other == [training EXCEPT !.action = a]
              IN  /\ get_mean_speed(other) = get_mean_speed(training)
                  /\ get_spent_calories(other) = get_spent_calories(training)
                  /\ get_distance(other) = RDiv(RMul(a, Rat(138, 100)), Num(1000))
    /\ (info # None /\ info.training_type = "Swimming") =>
          info.distance =
              RDiv(RMul(DataOf(packages[i - 1])[1], Rat(138, 100)), Num(1000))
    /\ (info # None /\ info.training_type \in {"Running", "SportsWalking"}) =>
          info.distance = RMul(info.speed, info.duration)
    /\ ReportOf(SwimSample) =>
          /\ info.distance = Rat(9936, 10000)
          /\ RMul(info.speed, info.duration) = Num(1)

\* A Swimming Report whose distance is not speed * duration.
C9_Witness ==
    /\ info # None
    /\ info.training_type = "Swimming"
    /\ info.distance # RMul(info.speed, info.duration)
    /\ training.cls = "Swimming"

(***************************************************************************)
(* C10.  State across the iterations of the driver.                        *)
(***************************************************************************)
Min(a, b) == IF a < b THEN a ELSE b

C10_SameLines ==
    /\ Len(output) <= Len(packages)
    /\ \A j, k \in 1..Min(Len(output), Len(packages)) :
          packages[j] = packages[k] => output[j] = output[k]

\* C10.  No state persists across the iterations of the driver: a step that
\* prints appends the line of the package the loop is at, a function of
\* that package alone, whatever was gone through before; so equal packages
\* of one batch have equal lines.
C10_NoPersistentState ==
    /\ []C10_SameLines
    /\ [][(output' # output) =>
             /\ i <= Len(packages)
             /\ output' = Append(output, ExpectedLine(packages[i]))]_vars

\* The same registered package gone through twice, an unknown label between.
C10_Witness ==
    /\ pc = "done"
    /\ Len(packages) = 3
    /\ packages[1] = packages[3]
    /\ LabelOf(packages[1]) \in KnownLabels
    /\ LabelOf(packages[2]) \notin KnownLabels
    /\ Len(output) = 3
    /\ output[1] = output[3]

=============================================================================
